---- MODULE Spec2Model ----
(***************************************************************************)
(* Model of grr/gui/static/angular-components/core/api-service.js:         *)
(* the request dispatcher (head/get/getCached/post/patch/delete), the      *)
(* long-running operation poller (poll/cancelPoll), the download           *)
(* orchestrator (downloadFile) and the payload normalizer (stripTypeInfo). *)
(*                                                                         *)
(* One action is one run-to-completion turn of the single JavaScript       *)
(* event loop: a call of a public method, the arrival of an HTTP response  *)
(* (with every promise callback the digest then runs), a $timeout firing   *)
(* or an $interval tick.                                                   *)
(***************************************************************************)
EXTENDS Integers, Sequences, FiniteSets, TLC

VARIABLES
  http,       \* transport requests in flight:
              \* set of [owner, method, url, cache, data, key]
  loading,    \* keys outstanding in the loading indicator service
  ops,        \* per call of a public method: its closure state and promise
  rich,       \* stripTypeInfo: the argument tree
  stripped,   \* stripTypeInfo: the returned tree (or the thrown error)
  copied,     \* stripTypeInfo: the tree held by the copy after the call
  richAfter,  \* stripTypeInfo: the tree held by the argument after the call
  phase,      \* stripTypeInfo: "build" while the argument is made, then "done"
  apiPath,       \* URL building: the apiPath argument, a string
  requestParams, \* URL building: the query parameters, <<key, value>> pairs
                 \* in the order of their insertion
  encodedPath,   \* URL building: encodeUrlPath(apiPath)
  sentUrl,       \* URL building: the URL handed to the transport
  iframeSrc,     \* URL building: the URL given to the iframe
  urlPhase       \* URL building: "build" while the arguments are made

vars ==
  <<http, loading, ops, rich, stripped, copied, richAfter, phase,
    apiPath, requestParams, encodedPath, sentUrl, iframeSrc, urlPhase>>

apiVars == <<http, loading, ops>>
stripVars == <<rich, stripped, copied, richAfter, phase>>
urlVars ==
  <<apiPath, requestParams, encodedPath, sentUrl, iframeSrc, urlPhase>>
pureVars == <<stripVars, urlVars>>

----------------------------------------------------------------------------
(* Bounds *)

Min(a, b) == IF a < b THEN a ELSE b

\* Calls of public methods made by the callers.
NumOps == 2
\* The same, where eventual settlement is checked.
NumLiveOps == 1
\* The count of transport calls of one operation stops here.
MaxGets == 4
\* Nesting depth of the trees given to stripTypeInfo.
MaxDepth == 3
\* Length of the apiPath strings given to the path encoder.
MaxPathLen == 3
\* Number of query parameters given to downloadFile.
MaxParams == 2

Ops == 1..NumOps
LiveOps == 1..Min(NumLiveOps, NumOps)

----------------------------------------------------------------------------
(* Responses of the HTTP transport and promise values *)

NoHeaders == [subject |-> "", reason |-> ""]

\* A response is {status, headers(), data}; data stands for data.state.
Running == [status |-> 200, data |-> "RUNNING", headers |-> NoHeaders]
Finished == [status |-> 200, data |-> "FINISHED", headers |-> NoHeaders]
Forbidden ==
  [status |-> 403, data |-> "", headers |-> [subject |-> "S", reason |-> "R"]]
ServerError == [status |-> 500, data |-> "", headers |-> NoHeaders]

OkResponses == {Running, Finished}
FailResponses == {Forbidden, ServerError}

\* What the server may answer to a request.
Responses == OkResponses \cup FailResponses

\* $http resolves its promise on a 2xx status and rejects it otherwise.
IsSuccess(resp) == resp.status = 200

\* The JavaScript value undefined, as a promise value.
Undefined == [status |-> 0, data |-> "undefined", headers |-> NoHeaders]

\* The stub response object downloadFile rejects with.
UnknownError == [status |-> 0, data |-> "Unknown error.", headers |-> NoHeaders]

PendingFuture == [st |-> "pending", val |-> Undefined]

\* A $q promise settles once: later resolve/reject calls are ignored.
Settle(fut, st, val) ==
  IF fut.st = "pending" THEN [st |-> st, val |-> val] ELSE fut


----------------------------------------------------------------------------
(* JSON value trees: a scalar, null, a sequence, or an object (a function  *)
(* from its keys to trees); a wrapped node is an object with a "value" key *)

Scalar(n) == [t |-> "scalar", s |-> n, e |-> <<>>, f |-> <<>>]
Null == [t |-> "null", s |-> 0, e |-> <<>>, f |-> <<>>]
Arr(seq) == [t |-> "array", s |-> 0, e |-> seq, f |-> <<>>]
Obj(fn) == [t |-> "object", s |-> 0, e |-> <<>>, f |-> fn]

\* The metadata of a wrapped node (its type name).
Metadata == Scalar(7)

\* The JavaScript value undefined, as an argument.
Absent == [t |-> "undefined", s |-> 0, e |-> <<>>, f |-> <<>>]

\* Outcome of a call that threw a TypeError.
Threw == [t |-> "TypeError", s |-> 0, e |-> <<>>, f |-> <<>>]

----------------------------------------------------------------------------
(* Payload normalizer *)

\* angular.isArray(value)
isArray(v) == v.t = "array"

\* Variant: arrays are not taken for objects.
isObjectNotArray(v) == v.t = "object"

\* angular.isObject(value): not null and typeof 'object' (arrays included)
isObject(v) == v.t \in {"array", "object"}

\* Reading value.value throws a TypeError on null and on undefined.
valueReadThrows(v) == v.t \in {"null", "undefined"}

\* angular.isDefined(value.value)
hasDefinedValue(v) == v.t = "object" /\ "value" \in DOMAIN v.f

RECURSIVE recursiveStrip(_)
recursiveStrip(v) ==
  IF isArray(v) THEN
    LET m == [i \in 1..Len(v.e) |-> recursiveStrip(v.e[i])] IN
      IF \E i \in 1..Len(v.e) : m[i] = Threw THEN Threw ELSE Arr(m)
  ELSE IF valueReadThrows(v) THEN Threw
  ELSE IF hasDefinedValue(v) THEN
    LET x == v.f["value"] IN
      IF ~isObject(x) THEN x
      ELSE IF isArray(x) THEN
        \* for (var k in value) over the indices of an array
        LET m == [i \in 1..Len(x.e) |-> recursiveStrip(x.e[i])] IN
          IF \E i \in 1..Len(x.e) : m[i] = Threw THEN Threw ELSE Arr(m)
      ELSE
        LET g == [k \in DOMAIN x.f |-> recursiveStrip(x.f[k])] IN
          IF \E k \in DOMAIN x.f : g[k] = Threw THEN Threw ELSE Obj(g)
  ELSE v

\* The enumeration order of for (var k in value): the order in which the
\* fields were inserted, which for the objects made here is this one.
FieldOrder == <<"value", "type", "a", "b">>
Rank(k) == CHOOSE i \in 1..Len(FieldOrder) : FieldOrder[i] = k

RECURSIVE afterStrip(_)
\* Elements of an array visited in index order by recursiveStrip with
\* assign: what each index holds afterwards.  The visit stops at the first
\* element on which recursiveStrip throws.
visitArray(x, assign) ==
  LET T == { i \in 1..Len(x.e) : recursiveStrip(x.e[i]) = Threw } IN
    Arr([i \in 1..Len(x.e) |->
           IF \E j \in T : j < i THEN x.e[i]
           ELSE IF i \in T \/ ~assign THEN afterStrip(x.e[i])
           ELSE recursiveStrip(x.e[i])])

\* The same for the fields of an object: value[k] = recursiveStrip(value[k]).
visitObject(x) ==
  LET T == { k \in DOMAIN x.f : recursiveStrip(x.f[k]) = Threw } IN
    Obj([k \in DOMAIN x.f |->
           IF \E j \in T : Rank(j) < Rank(k) THEN x.f[k]
           ELSE IF k \in T THEN afterStrip(x.f[k])
           ELSE recursiveStrip(x.f[k])])

\* recursiveStrip works in place: the tree that the object graph rooted at v
\* holds after recursiveStrip(v) returned or threw.  value.map makes a new
\* array, so an array keeps its elements, themselves visited; the object
\* under a value field has its fields assigned.
afterStrip(v) ==
  IF isArray(v) THEN visitArray(v, FALSE)
  ELSE IF valueReadThrows(v) THEN v
  ELSE IF hasDefinedValue(v) THEN
    LET x == v.f["value"] IN
      IF ~isObject(x) THEN v
      ELSE IF isArray(x)
        THEN Obj([v.f EXCEPT !["value"] = visitArray(x, TRUE)])
        ELSE Obj([v.f EXCEPT !["value"] = visitObject(x)])
  ELSE v

\* angular.copy: a structurally equal tree
copy(v) == v

\* Variant: the argument itself is handed to recursiveStrip.
copyIsSource == TRUE

\* angular.copy makes new objects: the copy shares no node with its source.
copySharesNodes == FALSE

stripTypeInfo(v) == recursiveStrip(copy(v))

\* The tree held by the object passed to stripTypeInfo after the call.
argumentAfterStrip(v) == IF copySharesNodes THEN afterStrip(v) ELSE v

----------------------------------------------------------------------------
(* Path encoder and query string.  A string is the sequence of its UTF-16  *)
(* code units, each written as a one-character string.                     *)

\* A surrogate code unit without its pair.
Lone == "lone surrogate"

\* The value of a code unit, for the comparison of strings.
Code(c) ==
  CASE c = " " -> 32 [] c = "%" -> 37 [] c = "&" -> 38 [] c = "/" -> 47
    [] c = "=" -> 61 [] c = "?" -> 63 [] c = "a" -> 97 [] c = "b" -> 98
    [] c = "i" -> 105 [] c = "p" -> 112

Chars(str) == { str[i] : i \in 1..Len(str) }

\* Outcome of a call that threw a URIError.
UriError == <<"URIError">>

\* encodeURIComponent on one code unit: letters are kept, the other
\* characters used here become the escape of their UTF-8 byte.
encodeUnit(c) ==
  CASE c = " " -> <<"%", "2", "0">>
    [] c = "%" -> <<"%", "2", "5">>
    [] c = "&" -> <<"%", "2", "6">>
    [] c = "/" -> <<"%", "2", "F">>
    [] c = "=" -> <<"%", "3", "D">>
    [] c = "?" -> <<"%", "3", "F">>
    [] OTHER -> <<c>>

RECURSIVE encodeUnits(_)
encodeUnits(str) ==
  IF str = <<>> THEN <<>>
  ELSE encodeUnit(Head(str)) \o encodeUnits(Tail(str))

\* encodeURIComponent(str): throws a URIError on a lone surrogate.
encodeURIComponent(str) ==
  IF Lone \in Chars(str) THEN UriError ELSE encodeUnits(str)

RECURSIVE split(_)
\* str.split('/')
split(str) ==
  IF "/" \notin Chars(str) THEN <<str>>
  ELSE LET i == CHOOSE i \in 1..Len(str) :
                  str[i] = "/" /\ \A j \in 1..(i - 1) : str[j] # "/"
       IN <<SubSeq(str, 1, i - 1)>> \o split(SubSeq(str, i + 1, Len(str)))

RECURSIVE join(_, _)
\* parts.join(sep)
join(parts, sep) ==
  IF Len(parts) = 0 THEN <<>>
  ELSE IF Len(parts) = 1 THEN parts[1]
  ELSE parts[1] \o sep \o join(Tail(parts), sep)

\* Variant: the whole path is given to encodeURIComponent.
encodeWholePath(urlPath) == encodeURIComponent(urlPath)

encodeUrlPath(urlPath) ==
  LET components == split(urlPath)
      encodedComponents ==
        [i \in 1..Len(components) |-> encodeURIComponent(components[i])]
  IN IF \E i \in 1..Len(components) : encodedComponents[i] = UriError
       THEN UriError
       ELSE join(encodedComponents, <<"/">>)

\* apiPath.replace(/^\//, '')
replaceLeadingSlash(path) ==
  IF Len(path) > 0 /\ path[1] = "/" THEN Tail(path) ELSE path

ApiPrefix == <<"/", "a", "p", "i", "/">>

\* The apiPath argument of the lifecycles: a well-formed path, or one
\* holding a lone surrogate, on which encodeURIComponent throws a URIError.
WellFormedPath == <<"/", "a", " ", "/", "b">>
ApiPaths == {WellFormedPath, <<"a", Lone>>}

\* The URL of WellFormedPath, computed once.
WellFormedUrl ==
  encodeUrlPath(ApiPrefix \o replaceLeadingSlash(WellFormedPath))

\* encodeUrlPath('/api/' + apiPath.replace(/^\//, ''))
apiUrl(path) ==
  IF path = WellFormedPath
    THEN WellFormedUrl
    ELSE encodeUrlPath(ApiPrefix \o replaceLeadingSlash(path))

RECURSIVE lexLess(_, _)
\* a < b for strings: by code units, a proper prefix first.
lexLess(a, b) ==
  IF b = <<>> THEN FALSE
  ELSE IF a = <<>> THEN TRUE
  ELSE IF a[1] = b[1] THEN lexLess(Tail(a), Tail(b))
  ELSE Code(a[1]) < Code(b[1])

\* Object.keys(requestParams): the keys in the order of their insertion.
keysOf(params) == [i \in 1..Len(params) |-> params[i][1]]

\* requestParams[key]
valueAt(params, key) ==
  params[CHOOSE i \in 1..Len(params) : params[i][1] = key][2]

\* Variant: the keys are left in the order of their insertion.
keysUnsorted(keys) == keys

RECURSIVE sort(_)
\* keys.sort(), on distinct strings
sort(keys) ==
  IF keys = <<>> THEN <<>>
  ELSE LET m == CHOOSE i \in 1..Len(keys) :
                  \A j \in 1..Len(keys) : ~lexLess(keys[j], keys[i])
       IN <<keys[m]>> \o
          sort(SubSeq(keys, 1, m - 1) \o SubSeq(keys, m + 1, Len(keys)))

\* Object.keys(requestParams).sort().map(function(key) {
\*   return [key, requestParams[key]].map(encodeURIComponent).join("=");
\* }).join("&")
paramsString(params) ==
  LET keys == sort(keysOf(params)) IN
    join([i \in 1..Len(keys) |->
            join(<<encodeURIComponent(keys[i]),
                   encodeURIComponent(valueAt(params, keys[i]))>>, <<"=">>)],
         <<"&">>)

\* if (paramsString.length > 0) url += '?' + paramsString; iframe.src = url
iframeUrl(url, params) ==
  IF Len(paramsString(params)) > 0
    THEN url \o <<"?">> \o paramsString(params)
    ELSE url

----------------------------------------------------------------------------
(* Loading indicator service (collaborator of the dispatcher) *)

NoKey == 0

\* startLoading() returns a key that no one holds.  An operation holds at
\* most one key at a time, so the key taken for operation o is named o.
startLoading(o) == o

\* stopLoading(key) removes that key from the registry.
stopLoading(reg, key) == reg \ {key}

----------------------------------------------------------------------------
(* Initial state *)

\* kind: which public method was called ("none": not called yet); threw:
\* the call threw instead of returning a promise.
\* fut: the promise returned to the caller.  cancelled, timers: the closure
\* variable of poll() and its pending $timeout timers.  iframes, intervals,
\* published: what downloadFile created and published.  src: the src of the
\* iframe.  lastObs: what the last run of the interval callback found.
\* params: the tree held by the caller's opt_params object after the call.
\* sent, falses, key, stops, lastResp: bookkeeping of the transport calls
\* issued, the responses that failed the predicate, the last loading key
\* acquired, the stopLoading calls made with it, the last response received.
InitOp ==
  [kind |-> "none", method |-> "NONE", threw |-> FALSE, fut |-> PendingFuture,
   cancelled |-> FALSE, timers |-> 0,
   iframes |-> 0, intervals |-> 0, published |-> <<>>,
   src |-> <<>>, lastObs |-> "none", params |-> Absent,
   sent |-> 0, falses |-> 0, key |-> NoKey, stops |-> 0,
   lastResp |-> Undefined]

InitApi ==
  /\ http = {}
  /\ loading = {}
  /\ ops = [o \in Ops |-> InitOp]

InitUrlIdle ==
  /\ apiPath = <<>>
  /\ requestParams = <<>>
  /\ encodedPath = <<>>
  /\ sentUrl = <<>>
  /\ iframeSrc = <<>>
  /\ urlPhase = "idle"

InitStripIdle ==
  /\ rich = Scalar(0)
  /\ stripped = Scalar(0)
  /\ copied = Scalar(0)
  /\ richAfter = Scalar(0)
  /\ phase = "idle"

Init == InitApi /\ InitStripIdle /\ InitUrlIdle

\* The callers use the operation slots in order.
NextSlot(o) ==
  /\ ops[o].kind = "none"
  /\ \A q \in 1..(o - 1) : ops[q].kind # "none"

----------------------------------------------------------------------------
(* Request dispatcher *)

NoPayloadMethods == {"HEAD", "GET", "GETCACHED"}
PayloadMethods == {"POST", "PATCH", "DELETE"}
Methods == NoPayloadMethods \cup PayloadMethods

\* head / get / getCached: the HTTP method and the cache setting they pass.
HttpMethod(m) == IF m = "GETCACHED" THEN "GET" ELSE m
CacheSetting(m) == m = "GETCACHED"

\* encodeUrlPath('/api/' + apiPath.replace(/^\//, '')) throws
encodeThrows(path) == apiUrl(path) = UriError

\* startLoading(), then the URL is encoded, then
\* this.http_({method, url, params, cache}).
sendRequestWithoutPayload_(owner, m, path, key) ==
  /\ loading' = loading \cup {key}
  /\ http' = IF encodeThrows(path)
               THEN http
               ELSE http \cup { [owner |-> owner, method |-> HttpMethod(m),
                                 url |-> apiUrl(path),
                                 cache |-> CacheSetting(m), data |-> Absent,
                                 key |-> key] }

\* The opt_params of post/patch/delete: absent, or a value edited by a form,
\* {type: .., value: {a: {type: .., value: 1}}}.
RichParams ==
  Obj([value |-> Obj([a |-> Obj([value |-> Scalar(1), type |-> Metadata])]),
       type |-> Metadata])
PayloadParams == {Absent, RichParams}

\* if (opt_stripTypeInfo) opt_params = stripTypeInfo(opt_params)
payloadOf(params, strip) == IF strip THEN stripTypeInfo(params) ELSE params

\* Stripping the params or encoding the URL throws.
payloadThrows(path, params, strip) ==
  payloadOf(params, strip) = Threw \/ encodeThrows(path)

\* The params are stripped if asked for, the request is built without files
\* (the URL is encoded), then startLoading(), then this.http_(request).
sendRequestWithPayload_(owner, m, path, params, strip, key) ==
  IF payloadThrows(path, params, strip)
    THEN UNCHANGED <<loading, http>>
    ELSE /\ loading' = loading \cup {key}
         /\ http' = http \cup { [owner |-> owner, method |-> m,
                                 url |-> apiUrl(path),
                                 cache |-> FALSE,
                                 data |-> payloadOf(params, strip),
                                 key |-> key] }

\* Whether the call threw instead of returning a promise.
callThrows(m, path, params, strip) ==
  IF m \in PayloadMethods THEN payloadThrows(path, params, strip)
                          ELSE encodeThrows(path)

\* Whether the call got as far as startLoading().
acquiresKey(m, path, params, strip) ==
  m \in NoPayloadMethods \/ ~payloadThrows(path, params, strip)

\* Variant: the key is released by a success handler only.
finallyOnSuccessOnly(resp) == IsSuccess(resp)

\* promise.finally(cb): cb runs whether the transport promise was resolved
\* or rejected.
finallyWithoutPayload(resp) == TRUE

finallyWithPayload(resp) == TRUE

FinallyRuns(req, resp) ==
  /\ req.key # NoKey
  /\ IF req.method \in PayloadMethods
       THEN finallyWithPayload(resp)
       ELSE finallyWithoutPayload(resp)

\* The transport settles req with resp; the dispatcher's finally callback
\* calls stopLoading(loadingKey).
TransportSettles(req, resp) ==
  /\ req \in http
  /\ http' = http \ {req}
  /\ loading' = IF FinallyRuns(req, resp)
                  THEN stopLoading(loading, req.key)
                  ELSE loading

\* Bookkeeping of the response and of the stopLoading call made for the key
\* the operation acquired.
NoteSettled(op, req, resp) ==
  [op EXCEPT !.lastResp = resp,
             !.stops = IF FinallyRuns(req, resp) /\ op.key = req.key
                         THEN @ + 1 ELSE @]

\* Variant: a failure is passed on without the headers of the response.
callFutureDropsHeaders(fut, resp) ==
  IF IsSuccess(resp)
    THEN Settle(fut, "resolved", resp)
    ELSE Settle(fut, "rejected", [resp EXCEPT !.headers = NoHeaders])

\* The promise returned by promise.finally() settles as the transport
\* promise did, with the same response.
callFuture(fut, resp) ==
  IF IsSuccess(resp) THEN Settle(fut, "resolved", resp)
                     ELSE Settle(fut, "rejected", resp)

\* head(), get(), getCached(), post(), patch(), delete(); the query
\* parameters of the first three are left out.
Call(o, m, path, params, strip) ==
  /\ NextSlot(o)
  /\ m \in NoPayloadMethods => (params = Absent /\ ~strip)
  /\ LET key == startLoading(o)
         thrown == callThrows(m, path, params, strip) IN
       /\ IF m \in PayloadMethods
            THEN sendRequestWithPayload_(o, m, path, params, strip, key)
            ELSE sendRequestWithoutPayload_(o, m, path, key)
       /\ ops' = [ops EXCEPT ![o] =
                    [@ EXCEPT !.kind = "call", !.method = m,
                              !.threw = thrown,
                              !.params = IF strip
                                           THEN argumentAfterStrip(params)
                                           ELSE params,
                              !.sent = IF thrown THEN @ ELSE @ + 1,
                              !.key = IF acquiresKey(m, path, params, strip)
                                        THEN key ELSE @,
                              !.stops = 0]]
  /\ UNCHANGED pureVars

CallSettles(o, req, resp) ==
  /\ ops[o].kind = "call"
  /\ req.owner = o
  /\ TransportSettles(req, resp)
  /\ ops' = [ops EXCEPT ![o] =
               [NoteSettled(@, req, resp) EXCEPT !.fut = callFuture(@, resp)]]
  /\ UNCHANGED pureVars

----------------------------------------------------------------------------
(* Long-running operation poller *)

\* Default opt_checkFn: response['data']['state'] == 'FINISHED'.
checkFn(resp) == resp.data = "FINISHED"

\* Variant: pollIteration does not look at the flag.
cancelledCheckMissing(p) == FALSE

\* if (cancelled) { return; }
cancelledCheck(p) == p.cancelled

\* pollIteration, on the poll record p (the caller's update applied).
\* Cancelled: returns undefined, which $timeout resolves its promise with,
\* and the promise poll() returned follows that promise.
\* Otherwise: this.get(apiPath, opt_params).then(success, failure).
pollIteration(o, p) ==
  IF cancelledCheck(p)
    THEN /\ ops' = [ops EXCEPT ![o] =
                      [p EXCEPT !.fut = Settle(@, "resolved", Undefined)]]
         /\ UNCHANGED <<http, loading>>
    ELSE LET key == startLoading(o) IN
         /\ sendRequestWithoutPayload_(o, "GET", WellFormedPath, key)
         /\ ops' = [ops EXCEPT ![o] =
                      [p EXCEPT !.sent = Min(@ + 1, MaxGets),
                                !.key = key, !.stops = 0]]

\* Variant: the first successful response resolves, whatever checkFn says.
pollSuccessWithoutCheck(p, resp) ==
  [p EXCEPT !.fut = Settle(@, "resolved", resp)]

\* Variant: no timer is set when checkFn is false.
pollSuccessWithoutTimer(p, resp) ==
  IF checkFn(resp)
    THEN [p EXCEPT !.fut = Settle(@, "resolved", resp)]
    ELSE [p EXCEPT !.falses = Min(@ + 1, MaxGets)]

\* function success(response)
pollSuccess(p, resp) ==
  IF checkFn(resp)
    THEN [p EXCEPT !.fut = Settle(@, "resolved", resp)]
    ELSE [p EXCEPT !.timers = @ + 1, !.falses = Min(@ + 1, MaxGets)]

\* Variant: a failed GET is retried after the delay.
pollFailureRetries(p, resp) ==
  [p EXCEPT !.timers = @ + 1]

\* function failure(response)
pollFailure(p, resp) ==
  [p EXCEPT !.fut = Settle(@, "rejected", resp)]

\* poll(): cancelled = false; result = pollIteration()
Poll(o) ==
  /\ NextSlot(o)
  /\ pollIteration(o, [ops[o] EXCEPT !.kind = "poll", !.method = "GET",
                                     !.cancelled = FALSE])
  /\ UNCHANGED pureVars

\* pollPromise['cancel'](): cancelled = true
cancelPoll(p) == [p EXCEPT !.cancelled = TRUE]

\* Variant: the flag is shared by the handles.
CancelPollSharedFlag(o) ==
  /\ ops[o].kind = "poll"
  /\ ops[o].fut.st = "pending"
  /\ ~ops[o].cancelled
  /\ ops' = [q \in Ops |-> IF ops[q].kind = "poll" THEN cancelPoll(ops[q])
                                                   ELSE ops[q]]
  /\ UNCHANGED <<http, loading, pureVars>>

\* cancelPoll(), called on a handle whose promise is still pending.
CancelPoll(o) ==
  /\ ops[o].kind = "poll"
  /\ ops[o].fut.st = "pending"
  /\ ~ops[o].cancelled
  /\ ops' = [ops EXCEPT ![o] = cancelPoll(@)]
  /\ UNCHANGED <<http, loading, pureVars>>

\* The GET of a poll cycle settles: finally callback of the dispatcher,
\* then the success or failure handler of pollIteration.
PollGetSettles(o, req, resp) ==
  /\ ops[o].kind = "poll"
  /\ req.owner = o
  /\ TransportSettles(req, resp)
  /\ LET p == NoteSettled(ops[o], req, resp) IN
       ops' = [ops EXCEPT ![o] =
                 IF IsSuccess(resp) THEN pollSuccess(p, resp)
                                    ELSE pollFailure(p, resp)]
  /\ UNCHANGED pureVars

\* Variant: the timer stays set when it fires.
TimeoutFiresRepeatedly(o) ==
  /\ ops[o].timers > 0
  /\ pollIteration(o, ops[o])
  /\ UNCHANGED pureVars

\* The 1000 ms $timeout set by the success handler fires: pollIteration.
TimeoutFires(o) ==
  /\ ops[o].timers > 0
  /\ pollIteration(o, [ops[o] EXCEPT !.timers = @ - 1])
  /\ UNCHANGED pureVars

----------------------------------------------------------------------------
(* Download orchestrator *)

\* What a tick finds: the iframe document still loading, complete, or the
\* access to it throwing.
ReadyStates == {"loading", "complete", "throws"}

\* downloadFile(): this.http_.head(url, {params: requestParams})
DownloadFile(o) ==
  /\ NextSlot(o)
  /\ http' = http \cup { [owner |-> o, method |-> "HEAD",
                          url |-> apiUrl(WellFormedPath),
                          cache |-> FALSE, data |-> Absent, key |-> NoKey] }
  /\ ops' = [ops EXCEPT ![o] =
               [@ EXCEPT !.kind = "download", !.method = "HEAD",
                         !.sent = @ + 1]]
  /\ UNCHANGED <<loading, pureVars>>

\* The opt_params given to downloadFile: {b: 'a', a: ' '}.
DownloadParams == << << <<"b">>, <<"a">> >>, << <<"a">>, <<" ">> >> >>

\* The URL of the download for WellFormedPath and these parameters.
DownloadSrc == iframeUrl(apiUrl(WellFormedPath), DownloadParams)

\* HEAD succeeded: iframe appended with the URL of the download as its
\* src, $interval(..., 500) started.
headSuccess(dl, resp) ==
  [dl EXCEPT !.iframes = @ + 1, !.intervals = @ + 1,
             !.src = DownloadSrc]

\* Variant: every failure of the HEAD is published.
headFailurePublishesAll(dl, resp) ==
  [dl EXCEPT
     !.published = Append(@, <<"unauthorized", resp.headers.subject,
                               resp.headers.reason>>),
     !.fut = Settle(@, "rejected", resp)]

\* function failure(response): publish on 403, then reject.
headFailure(dl, resp) ==
  [dl EXCEPT
     !.published = IF resp.status = 403
                     THEN Append(@, <<"unauthorized", resp.headers.subject,
                                      resp.headers.reason>>)
                     ELSE @,
     !.fut = Settle(@, "rejected", resp)]

HeadSettles(o, req, resp) ==
  /\ ops[o].kind = "download"
  /\ req.owner = o
  /\ TransportSettles(req, resp)
  /\ LET dl == NoteSettled(ops[o], req, resp) IN
       ops' = [ops EXCEPT ![o] =
                 IF IsSuccess(resp) THEN headSuccess(dl, resp)
                                    ELSE headFailure(dl, resp)]
  /\ UNCHANGED pureVars

\* Variant: the promise has no finally callback, so that only the branch of
\* the ready document cancels the interval.
intervalCallbackWithoutFinally(dl, obs) ==
  CASE obs = "complete" ->
         [dl EXCEPT !.lastObs = obs, !.intervals = @ - 1,
                    !.fut = Settle(@, "resolved", Undefined)]
    [] obs = "throws" ->
         [dl EXCEPT !.lastObs = obs,
                    !.fut = Settle(@, "rejected", UnknownError)]
    [] OTHER -> [dl EXCEPT !.lastObs = obs]

\* One run of the interval callback, the iframe observed in state obs,
\* followed by the finally callback of deferred.promise once it settled.
intervalCallback(dl, obs) ==
  CASE obs = "complete" ->
         [dl EXCEPT !.lastObs = obs, !.intervals = @ - 1,
                    !.fut = Settle(@, "resolved", Undefined)]
    [] obs = "throws" ->
         [dl EXCEPT !.lastObs = obs, !.intervals = @ - 1,
                    !.fut = Settle(@, "rejected", UnknownError)]
    [] OTHER -> [dl EXCEPT !.lastObs = obs]

IntervalTick(o, obs) ==
  /\ ops[o].intervals > 0
  /\ ops' = [ops EXCEPT ![o] = intervalCallback(@, obs)]
  /\ UNCHANGED <<http, loading, pureVars>>

----------------------------------------------------------------------------
(* Specification of the request / poll / download lifecycle *)

CallStep(S) ==
  \E o \in S, m \in Methods, path \in ApiPaths,
     params \in PayloadParams, strip \in BOOLEAN :
    Call(o, m, path, params, strip)
CallSettlesStep(S) ==
  \E o \in S, req \in http, resp \in Responses :
    CallSettles(o, req, resp)
PollStep(S) == \E o \in S : Poll(o)
CancelPollStep(S) == \E o \in S : CancelPoll(o)
PollGetSettlesStep(S) ==
  \E o \in S, req \in http, resp \in Responses :
    PollGetSettles(o, req, resp)
TimeoutFiresStep(S) == \E o \in S : TimeoutFires(o)
DownloadFileStep(S) == \E o \in S : DownloadFile(o)
HeadSettlesStep(S) ==
  \E o \in S, req \in http, resp \in Responses :
    HeadSettles(o, req, resp)
IntervalTickStep(S) ==
  \E o \in S, obs \in ReadyStates : IntervalTick(o, obs)

Next ==
  \/ CallStep(Ops)
  \/ CallSettlesStep(Ops)
  \/ PollStep(Ops)
  \/ CancelPollStep(Ops)
  \/ PollGetSettlesStep(Ops)
  \/ TimeoutFiresStep(Ops)
  \/ DownloadFileStep(Ops)
  \/ HeadSettlesStep(Ops)
  \/ IntervalTickStep(Ops)

Spec == Init /\ [][Next]_vars

\* The same operations, made by the callers in the slots LiveOps, for the
\* properties of eventual settlement.
LiveNext ==
  \/ CallStep(LiveOps)
  \/ CallSettlesStep(LiveOps)
  \/ PollStep(LiveOps)
  \/ CancelPollStep(LiveOps)
  \/ PollGetSettlesStep(LiveOps)
  \/ TimeoutFiresStep(LiveOps)
  \/ DownloadFileStep(LiveOps)
  \/ HeadSettlesStep(LiveOps)
  \/ IntervalTickStep(LiveOps)

\* The transport settles every request, and timers and intervals keep
\* firing; which response arrives is the server's choice.
Responds(o) ==
  \/ \E req \in http, resp \in Responses : CallSettles(o, req, resp)
  \/ \E req \in http, resp \in Responses : PollGetSettles(o, req, resp)
  \/ \E req \in http, resp \in Responses : HeadSettles(o, req, resp)

Fairness ==
  \A o \in LiveOps :
    /\ WF_vars(Responds(o))
    /\ WF_vars(TimeoutFires(o))
    /\ WF_vars(\E obs \in ReadyStates : IntervalTick(o, obs))

LiveSpec == Init /\ [][LiveNext]_vars /\ Fairness

----------------------------------------------------------------------------
(* Properties of the poller *)

InFlight(o) == { r \in http : r.owner = o }
Settled(fut) == fut.st # "pending"
PollOps == { o \in Ops : ops[o].kind = "poll" }
CallOps == { o \in Ops : ops[o].kind = "call" }
DownloadOps == { o \in Ops : ops[o].kind = "download" }

\* C1: once cancel has been called on a poll whose future is still pending
\* (a GET in flight or a re-poll timer pending), the future is never
\* resolved and never rejected afterwards.
CancelledPollStaysUnsettled ==
  [][\A o \in Ops :
       (ops[o].kind = "poll" /\ ops[o].cancelled /\ ~Settled(ops[o].fut))
         => ~Settled(ops'[o].fut)]_vars

\* C2: after cancel no new GET is issued for the handle, and cancel does not
\* abort the GET then in flight: it stays with the transport until it settles.
NoGetAfterCancel ==
  /\ [][\A o \in Ops :
          (ops[o].kind = "poll" /\ ops[o].cancelled) =>
            /\ InFlight(o)' \subseteq InFlight(o)
            /\ ops'[o].sent = ops[o].sent]_vars
  /\ [][\A o \in Ops :
          (~ops[o].cancelled /\ ops'[o].cancelled)
            => http' = http /\ loading' = loading]_vars

\* A handle cancelled during its first cycle, whose timer has fired since:
\* no second GET.
NoGetAfterCancelWitness ==
  \E o \in PollOps :
    /\ ops[o].cancelled
    /\ ops[o].lastResp = Running
    /\ ops[o].timers = 0
    /\ ops[o].sent = 1
    /\ InFlight(o) = {}

\* C3: a never-cancelled poll whose responses fail the predicate k-1 times
\* and satisfy it the k-th time has issued exactly k GETs when it resolves,
\* resolves with the k-th response, and every GET after the first is issued
\* by the firing of the timer set after the previous response.
PollResolvesWithKthResponse ==
  /\ [](\A o \in PollOps :
          (~ops[o].cancelled /\ ops[o].fut.st = "resolved") =>
            /\ ops[o].sent = Min(ops[o].falses + 1, MaxGets)
            /\ ops[o].fut.val = ops[o].lastResp
            /\ checkFn(ops[o].lastResp)
            /\ InFlight(o) = {}
            /\ ops[o].timers = 0)
  /\ [][\A o \in Ops :
          (ops[o].kind = "poll" /\ InFlight(o)' # InFlight(o)
             /\ InFlight(o)' # {})
            => /\ ops[o].timers = 1
               /\ ops'[o].timers = 0
               /\ InFlight(o) = {}]_vars

\* Predicate false once, true the second time: two GETs, resolved.
PollResolvesWitness ==
  \E o \in PollOps :
    /\ ~ops[o].cancelled
    /\ ops[o].fut = [st |-> "resolved", val |-> Finished]
    /\ ops[o].falses = 1
    /\ ops[o].sent = 2

\* C4: when a GET of a poll fails, the poll future is rejected with that
\* response, no timer is scheduled and no further GET is issued.
PollFailureRejects ==
  \A o \in PollOps :
    ops[o].lastResp \in FailResponses =>
      /\ ops[o].fut = [st |-> "rejected", val |-> ops[o].lastResp]
      /\ ops[o].timers = 0
      /\ InFlight(o) = {}

\* A failure on a later cycle.
PollFailureWitness ==
  \E o \in PollOps :
    /\ ops[o].lastResp \in FailResponses
    /\ ops[o].sent = 2
    /\ ops[o].fut.st = "rejected"

----------------------------------------------------------------------------
(* Properties of the dispatcher *)

\* C5: the key acquired for a dispatched call (one whose transport call
\* was issued) or for a GET of a poll is
\* outstanding while the transport call is in flight and is released by
\* exactly one stopLoading once it settled, on success, on failure and when
\* the poll was cancelled meanwhile.
LoadingKeyReleasedExactlyOnce ==
  \A o \in Ops :
    (ops[o].key # NoKey /\ ~ops[o].threw) =>
      IF \E r \in http : r.key = ops[o].key
        THEN ops[o].key \in loading /\ ops[o].stops = 0
        ELSE ops[o].key \notin loading /\ ops[o].stops = 1

\* A poll cancelled while its GET was in flight, the GET failed since.
LoadingKeyWitness ==
  \E o \in PollOps :
    /\ ops[o].cancelled
    /\ ops[o].lastResp \in FailResponses
    /\ ops[o].stops = 1
    /\ ops[o].key \notin loading

\* C6: a dispatcher call whose transport call failed made one transport
\* call, its future is rejected with the failing response as received, and
\* its loading key is released once the rejection can be observed.
FailedCallRejectsAfterRelease ==
  \A o \in CallOps :
    (ops[o].lastResp \in FailResponses \/ ops[o].fut.st = "rejected") =>
      /\ ops[o].sent = 1
      /\ InFlight(o) = {}
      /\ ops[o].lastResp \in FailResponses
      /\ ops[o].fut = [st |-> "rejected", val |-> ops[o].lastResp]
      /\ ops[o].key \notin loading
      /\ ops[o].stops = 1

FailedCallWitness ==
  \E o \in CallOps :
    /\ ops[o].method \in PayloadMethods
    /\ ops[o].fut = [st |-> "rejected", val |-> Forbidden]

----------------------------------------------------------------------------
(* Properties of the download orchestrator *)

\* C7: downloadFile publishes ("unauthorized", subject, reason), once and
\* with the values of the response headers, exactly when its HEAD failed
\* with status 403; on every HEAD failure the future is rejected with the
\* failing response and neither iframe nor interval is created.
DownloadPublishesOn403Only ==
  \A o \in DownloadOps :
    /\ ops[o].published =
         IF ops[o].lastResp.status = 403
           THEN << <<"unauthorized", ops[o].lastResp.headers.subject,
                     ops[o].lastResp.headers.reason>> >>
           ELSE <<>>
    /\ ops[o].lastResp \in FailResponses =>
         /\ ops[o].fut = [st |-> "rejected", val |-> ops[o].lastResp]
         /\ ops[o].iframes = 0
         /\ ops[o].intervals = 0
         /\ ops[o].sent = 1

DownloadUnauthorizedWitness ==
  \E o \in DownloadOps :
    /\ ops[o].lastResp.status = 403
    /\ ops[o].published = << <<"unauthorized", "S", "R">> >>
    /\ ops[o].fut.st = "rejected"

----------------------------------------------------------------------------
(* Settlement of the returned futures *)

\* C8: with the transport settling every request and timers firing, every
\* future of a dispatcher call, of downloadFile and of a poll that is never
\* cancelled eventually resolves or rejects.
EveryFutureSettles ==
  \A o \in LiveOps :
    (ops[o].kind # "none" /\ ~ops[o].threw)
      ~> (Settled(ops[o].fut) \/ ops[o].cancelled)

\* C8 as amended: the future of a dispatcher call eventually settles; a poll
\* that is not cancelled eventually settles or has a re-poll timer pending
\* again (the last response failed the predicate); a download eventually
\* settles or has its interval running (the iframe is not ready yet).
FuturesSettleOrKeepWaiting ==
  \A o \in LiveOps :
    /\ (ops[o].kind = "call" /\ ~ops[o].threw) ~> Settled(ops[o].fut)
    /\ (ops[o].kind = "poll")
         ~> (Settled(ops[o].fut) \/ ops[o].cancelled \/ ops[o].timers > 0)
    /\ (ops[o].kind = "download")
         ~> (Settled(ops[o].fut) \/ ops[o].intervals > 0)

\* A dispatcher call that has settled.
FuturesSettleWitness ==
  \E o \in CallOps : ops[o].fut = [st |-> "resolved", val |-> Finished]

----------------------------------------------------------------------------
(* Argument trees of the payload normalizer *)

RECURSIVE Depth(_)
Depth(v) ==
  LET kids == IF v.t = "array" THEN { v.e[i] : i \in 1..Len(v.e) }
              ELSE IF v.t = "object" THEN { v.f[k] : k \in DOMAIN v.f }
              ELSE {}
  IN IF kids = {} THEN 0
     ELSE 1 + (CHOOSE n \in { Depth(k) : k \in kids } :
                 \A k \in kids : Depth(k) <= n)

Leaves == {Scalar(1), Null, Arr(<<>>), Obj(<<>>)}

\* The argument trees: a leaf, grown by wrapping it as {value: v, type: ..}
\* or {value: v}, putting it in a sequence, or in a field of a plain object.
Wrappings(v) ==
  { Obj([value |-> v, type |-> Metadata]), Obj([value |-> v]) }
Sequences(v) ==
  { Arr(<<v>>), Arr(<<v, Scalar(1)>>), Arr(<<Null, v>>) }
PlainObjects(v) ==
  { Obj([a |-> v]), Obj([a |-> v, b |-> Scalar(1)]) }

StripInit ==
  /\ InitApi
  /\ InitUrlIdle
  /\ rich \in Leaves
  /\ stripped = Scalar(0)
  /\ copied = Scalar(0)
  /\ richAfter = Scalar(0)
  /\ phase = "build"

BuildWrapped ==
  /\ phase = "build"
  /\ Depth(rich) < MaxDepth
  /\ rich' \in Wrappings(rich)
  /\ UNCHANGED <<stripped, copied, richAfter, phase, apiVars, urlVars>>

BuildSequence ==
  /\ phase = "build"
  /\ Depth(rich) < MaxDepth
  /\ rich' \in Sequences(rich)
  /\ UNCHANGED <<stripped, copied, richAfter, phase, apiVars, urlVars>>

BuildPlainObject ==
  /\ phase = "build"
  /\ Depth(rich) < MaxDepth
  /\ rich' \in PlainObjects(rich)
  /\ UNCHANGED <<stripped, copied, richAfter, phase, apiVars, urlVars>>

\* stripTypeInfo(richlyTypedValue)
ApplyStrip ==
  /\ phase = "build"
  /\ stripped' = stripTypeInfo(rich)
  /\ copied' = afterStrip(copy(rich))
  /\ richAfter' = argumentAfterStrip(rich)
  /\ phase' = "done"
  /\ UNCHANGED <<rich, apiVars, urlVars>>

\* post / patch / delete (apiPath, richlyTypedValue, true)
SendStripped ==
  /\ phase = "build"
  /\ \E m \in PayloadMethods : Call(1, m, WellFormedPath, rich, TRUE)

StripNext ==
  \/ BuildWrapped
  \/ BuildSequence
  \/ BuildPlainObject
  \/ ApplyStrip
  \/ SendStripped

StripSpec == StripInit /\ [][StripNext]_vars

----------------------------------------------------------------------------
(* Arguments of the path encoder and of downloadFile *)

PathChars == {"a", "/", " ", "%", Lone}
QueryKeys == { <<"a">>, <<"b">>, <<"a", "b">>, <<"&">> }
QueryValues == { <<"a">>, <<" ">> }

UrlInit ==
  /\ InitApi
  /\ InitStripIdle
  /\ apiPath = <<>>
  /\ requestParams = <<>>
  /\ encodedPath = <<>>
  /\ sentUrl = <<>>
  /\ iframeSrc = <<>>
  /\ urlPhase = "build"

AppendToPath ==
  /\ urlPhase = "build"
  /\ Len(apiPath) < MaxPathLen
  /\ \E c \in PathChars : apiPath' = Append(apiPath, c)
  /\ UNCHANGED <<requestParams, encodedPath, sentUrl, iframeSrc, urlPhase,
                 apiVars, stripVars>>

\* One more entry is put into the parameter object.
AddParam ==
  /\ urlPhase = "build"
  /\ Len(requestParams) < MaxParams
  /\ \E k \in QueryKeys, v \in QueryValues :
       /\ \A i \in 1..Len(requestParams) : requestParams[i][1] # k
       /\ requestParams' = Append(requestParams, <<k, v>>)
  /\ UNCHANGED <<apiPath, encodedPath, sentUrl, iframeSrc, urlPhase,
                 apiVars, stripVars>>

\* encodeUrlPath(apiPath)
EncodePath ==
  /\ urlPhase = "build"
  /\ encodedPath' = encodeUrlPath(apiPath)
  /\ urlPhase' = "encoded"
  /\ UNCHANGED <<apiPath, requestParams, sentUrl, iframeSrc,
                 apiVars, stripVars>>

\* downloadFile(apiPath, requestParams) with a HEAD that succeeds: the URL
\* of the HEAD and the URL of the iframe.  Nothing is sent when the encoding
\* of the path throws.
DownloadUrls ==
  /\ urlPhase = "build"
  /\ sentUrl' = apiUrl(apiPath)
  /\ iframeSrc' = IF apiUrl(apiPath) = UriError
                    THEN UriError
                    ELSE iframeUrl(apiUrl(apiPath), requestParams)
  /\ urlPhase' = "downloaded"
  /\ UNCHANGED <<apiPath, requestParams, encodedPath, apiVars, stripVars>>

\* get(apiPath) / post(apiPath)
SendToPath ==
  /\ urlPhase = "build"
  /\ \E m \in {"GET", "POST"} : Call(1, m, apiPath, Absent, FALSE)

UrlNext ==
  \/ AppendToPath
  \/ AddParam
  \/ EncodePath
  \/ DownloadUrls
  \/ SendToPath

UrlSpec == UrlInit /\ [][UrlNext]_vars

----------------------------------------------------------------------------
(* Properties of the payload normalizer *)

RECURSIVE Nodes(_)
\* Every node of a tree, the tree itself included.
Nodes(v) ==
  {v} \cup
    (IF v.t = "array" THEN UNION { Nodes(v.e[i]) : i \in 1..Len(v.e) }
     ELSE IF v.t = "object" THEN UNION { Nodes(v.f[k]) : k \in DOMAIN v.f }
     ELSE {})

IsWrapped(v) == v.t = "object" /\ "value" \in DOMAIN v.f
HasMetadata(v) == v.t = "object" /\ "type" \in DOMAIN v.f

\* A plain tree: no wrapped node and no metadata field at any depth.
IsPlainTree(v) ==
  /\ v # Threw
  /\ \A n \in Nodes(v) : ~IsWrapped(n) /\ ~HasMetadata(n)

NullFree(v) == \A n \in Nodes(v) : n # Null

\* C9: for every RichValue tree, stripTypeInfo returns a plain tree with no
\* wrapped node and no metadata field at any depth (stated here for the
\* trees without null, on which the call returns normally).
StripLeavesPlainTree ==
  (phase = "done" /\ NullFree(rich)) => IsPlainTree(stripped)

\* C10: stripTypeInfo returns normally, with a structurally equal value, on
\* every plain value that has no `value` field anywhere, null included.
StripFixesPlainValues ==
  (phase = "done" /\ \A n \in Nodes(rich) : ~IsWrapped(n))
    => stripped = rich

\* A container of results; the TypeError of one child is that of the whole.
OrThrew(v) == IF Threw \in Nodes(v) THEN Threw ELSE v

\* C11: stripTypeInfo is compositional: on a sequence it returns the sequence
\* of the results on the elements; on a wrapped node {value: X, ..} it returns
\* X when X is a scalar, and otherwise X with each of its elements or fields
\* replaced by the result of stripTypeInfo on it.
StripIsCompositional ==
  phase = "done" =>
    /\ rich.t = "array" =>
         stripped =
           OrThrew(Arr([i \in 1..Len(rich.e) |-> stripTypeInfo(rich.e[i])]))
    /\ IsWrapped(rich) =>
         LET X == rich.f["value"] IN
           stripped =
             CASE X.t = "array" ->
                    OrThrew(Arr([i \in 1..Len(X.e) |-> stripTypeInfo(X.e[i])]))
               [] X.t = "object" ->
                    OrThrew(Obj([k \in DOMAIN X.f |-> stripTypeInfo(X.f[k])]))
               [] OTHER -> X

\* A wrapped sequence of a wrapped scalar: both wrappings are gone.
StripCompositionalWitness ==
  /\ phase = "done"
  /\ IsWrapped(rich)
  /\ rich.f["value"].t = "array"
  /\ \E i \in 1..Len(rich.f["value"].e) : IsWrapped(rich.f["value"].e[i])
  /\ stripped = Arr(<<Scalar(1)>>)

\* C12: stripTypeInfo never mutates its argument: the tree the argument holds
\* after the call is the one it held before; so the params object handed to
\* post / patch / delete with the strip flag set holds the same tree after
\* the call.
StripKeepsArgument ==
  /\ [](phase = "done" => richAfter = rich)
  /\ [][\A o \in Ops :
          (ops[o].kind = "none" /\ ops'[o].kind = "call")
            => ops'[o].params = rich]_vars

\* The copy was changed by the call, the argument was not.
StripKeepsArgumentWitness ==
  /\ phase = "done"
  /\ copied # rich
  /\ richAfter = rich
  /\ stripped # Threw

----------------------------------------------------------------------------
(* Properties of the lifecycles under interleaving *)

\* C15: a poll handle has at most one outstanding activity, an in-flight GET
\* or a pending re-poll timer, never both and never two of a kind; a timer
\* is set only by the step in which the GET settles, and a GET after the
\* first is issued only by the step in which the timer fires.
OneActivityPerPoll ==
  /\ [](\A o \in PollOps : Cardinality(InFlight(o)) + ops[o].timers <= 1)
  /\ [][\A o \in Ops :
          ops[o].kind = "poll" =>
            /\ ops'[o].timers > ops[o].timers =>
                 (InFlight(o) # {} /\ InFlight(o)' = {})
            /\ InFlight(o)' \ InFlight(o) # {} =>
                 (ops[o].timers > ops'[o].timers /\ InFlight(o) = {})]_vars

\* The second re-poll timer of a handle is pending, nothing is in flight.
OneActivityWitness ==
  \E o \in PollOps :
    /\ ops[o].timers = 1
    /\ ops[o].falses = 2
    /\ ops[o].sent = 2
    /\ InFlight(o) = {}

\* C16: once cancel has been called on a handle no re-poll timer is scheduled
\* for it any more, also not when the GET in flight at the time of the
\* cancel succeeds with a response that fails the predicate.
NoTimerAfterCancel ==
  [][\A o \in Ops :
       (ops[o].kind = "poll" /\ ops[o].cancelled)
         => ops'[o].timers <= ops[o].timers]_vars

\* C17: every request handed to the transport went through the dispatcher
\* and holds a loading key: the outstanding keys are as many as the requests
\* in flight, the HEAD of downloadFile included.
LoadingKeysMatchRequests ==
  /\ \A r \in http : r.key # NoKey /\ r.key \in loading
  /\ Cardinality(loading) = Cardinality(http)

\* C18: a download has at most one interval, running only after its HEAD
\* succeeded and while its future is pending; the future is resolved only by
\* a tick that found the document ready, rejected with 'Unknown error.' only
\* by a tick whose inspection threw; a settled download has no interval, so
\* no tick comes after the settlement and the future does not change again.
DownloadSettlesOnTick ==
  /\ [](\A o \in DownloadOps :
          /\ ops[o].intervals <= 1 /\ ops[o].iframes <= 1
          /\ ops[o].intervals = 1 =>
               /\ IsSuccess(ops[o].lastResp) /\ InFlight(o) = {}
               /\ ops[o].iframes = 1
               /\ ~Settled(ops[o].fut)
               /\ ops[o].lastObs \in {"none", "loading"}
          /\ ops[o].fut.st = "resolved" =>
               (ops[o].lastObs = "complete" /\ ops[o].fut.val = Undefined)
          /\ ops[o].fut.st = "rejected" =>
               \/ ops[o].lastObs = "throws" /\ ops[o].fut.val = UnknownError
               \/ /\ ops[o].lastObs = "none" /\ ops[o].iframes = 0
                  /\ ops[o].fut.val = ops[o].lastResp
                  /\ ops[o].lastResp \in FailResponses
          /\ Settled(ops[o].fut) => ops[o].intervals = 0)
  /\ [][\A o \in Ops :
          (ops[o].kind = "download" /\ Settled(ops[o].fut))
            => ops'[o] = ops[o]]_vars

\* A download rejected by a tick whose inspection threw.
DownloadTickWitness ==
  \E o \in DownloadOps :
    /\ ops[o].fut = [st |-> "rejected", val |-> UnknownError]
    /\ ops[o].lastObs = "throws"
    /\ ops[o].iframes = 1
    /\ ops[o].intervals = 0

\* C19: poll handles are independent: a step of one handle (its cancel, the
\* settling of its GET, the firing of its timer) leaves the closure state,
\* the future, the GET count and the in-flight GET of every other handle as
\* they were; of the shared loading keys it releases at most its own, and
\* the key of the other handle stays as it was.
PollsAreIndependent ==
  [][\A o, q \in Ops :
       (o # q /\ ops[o].kind = "poll" /\ ops[q].kind = "poll"
          /\ ops'[o] # ops[o])
         => /\ ops'[q] = ops[q]
            /\ InFlight(q)' = InFlight(q)
            /\ (ops[q].key \in loading') <=> (ops[q].key \in loading)
            /\ loading \ loading' \subseteq {ops[o].key}]_vars

\* One handle was cancelled and has settled, the other went through a
\* second cycle and resolved.
PollsIndependentWitness ==
  \E o, q \in PollOps :
    /\ o # q
    /\ ops[o].cancelled /\ Settled(ops[o].fut)
    /\ ~ops[q].cancelled
    /\ ops[q].sent = 2
    /\ ops[q].fut = [st |-> "resolved", val |-> Finished]

\* C20: a loading key is outstanding only while a transport call issued for
\* it is in flight; so a dispatcher call that throws while the request is
\* prepared leaves no key outstanding.
NoKeyWithoutRequest ==
  \A k \in loading : \E r \in http : r.key = k

----------------------------------------------------------------------------
(* Properties of the path encoder and of the download URL *)

WellFormed(str) == Lone \notin Chars(str)

Count(str, c) == Cardinality({ i \in 1..Len(str) : str[i] = c })

\* The string holds the escape of a slash.
HasEscapedSlash(str) ==
  \E i \in 1..(Len(str) - 2) :
    str[i] = "%" /\ str[i + 1] = "2" /\ str[i + 2] = "F"

RECURSIVE EscapedButSlash(_)
\* Every code unit but the slash replaced by its escape.
EscapedButSlash(str) ==
  IF str = <<>> THEN <<>>
  ELSE (IF Head(str) = "/" THEN <<"/">> ELSE encodeUnit(Head(str)))
         \o EscapedButSlash(Tail(str))

\* The API path with one leading slash taken off, after '/api/'.
PrefixedPath(path) ==
  ApiPrefix \o (IF path # <<>> /\ Head(path) = "/"
                  THEN SubSeq(path, 2, Len(path)) ELSE path)

\* C13: after a successful HEAD the URL of the iframe is the encoded API path
\* followed, when there are parameters, by '?' and the key=value pairs in the
\* lexicographic order of the keys, keys and values percent-encoded, joined
\* by '&'; the same entries inserted in another order give the same URL.
DownloadUrlSortsParams ==
  (urlPhase = "downloaded" /\ WellFormed(apiPath)) =>
    LET n == Len(requestParams)
        order == CHOOSE f \in Permutations(1..n) :
                   \A i, j \in 1..n :
                     i < j => lexLess(requestParams[f[i]][1],
                                      requestParams[f[j]][1])
        pair(i) == encodeUnits(requestParams[order[i]][1]) \o <<"=">>
                     \o encodeUnits(requestParams[order[i]][2])
    IN /\ sentUrl = EscapedButSlash(PrefixedPath(apiPath))
       /\ iframeSrc =
            IF n = 0 THEN sentUrl
            ELSE sentUrl \o <<"?">> \o join([i \in 1..n |-> pair(i)], <<"&">>)
       /\ \A f \in Permutations(1..n) :
            iframeUrl(sentUrl, [i \in 1..n |-> requestParams[f[i]]])
              = iframeSrc

\* Two parameters inserted against the order of their keys, with characters
\* to escape: ?%26=%20&b=a
DownloadUrlWitness ==
  /\ urlPhase = "downloaded"
  /\ requestParams = << << <<"b">>, <<"a">> >>, << <<"&">>, <<" ">> >> >>
  /\ iframeSrc = sentUrl \o <<"?", "%", "2", "6", "=", "%", "2", "0",
                               "&", "b", "=", "a">>

\* C14: on a well-formed path encodeUrlPath keeps the number and the order of
\* the '/'-delimited segments (empty ones stay empty), escapes no delimiter,
\* and encodes each segment on its own; every URL sent by the dispatcher or
\* by downloadFile is the encoding of '/api/' followed by the API path less
\* one leading slash.
EncodeUrlPathKeepsSegments ==
  /\ []((urlPhase = "encoded" /\ WellFormed(apiPath)) =>
          LET segs == split(apiPath)
              outs == split(encodedPath)
          IN /\ Len(outs) = Len(segs)
             /\ Len(segs) = Count(apiPath, "/") + 1
             /\ \A i \in 1..Len(segs) : outs[i] = encodeUnits(segs[i])
             /\ Count(encodedPath, "/") = Count(apiPath, "/")
             /\ ~HasEscapedSlash(encodedPath)
             /\ encodedPath = EscapedButSlash(apiPath))
  /\ []((urlPhase = "downloaded" /\ WellFormed(apiPath)) =>
          sentUrl = EscapedButSlash(PrefixedPath(apiPath)))
  /\ [][\A r \in http' \ http :
          r.url = EscapedButSlash(PrefixedPath(apiPath))]_vars

\* '/ /' has three segments, the outer ones empty: '/%20/'.
EncodeUrlPathWitness ==
  /\ urlPhase = "encoded"
  /\ apiPath = <<"/", " ", "/">>
  /\ encodedPath = <<"/", "%", "2", "0", "/">>

====
